---- MODULE Spec2Model ----
(***************************************************************************)
(* Model of app/core/http_client.py: the AsyncSession facade, the aiohttp   *)
(* fallback backend (_AiohttpAsyncSession, _AiohttpResponse) and its proxy, *)
(* timeout and verify helpers.                                             *)
(*                                                                         *)
(* Text and bytes are sequences of code points / byte values.  An optional *)
(* value is None (the empty tuple) or Some(x) (a one-element tuple).  A    *)
(* dict is a function whose domain is its key set.                         *)
(***************************************************************************)
EXTENDS Integers, Sequences, FiniteSets, TLC

VARIABLES
    facade,           \* the AsyncSession facade, with the module's _HAS_CURL_CFFI
    capability,       \* ProxyConnector is not None (aiohttp_socks importable)
    default_proxies,  \* _AiohttpAsyncSession._default_proxies
    session,          \* _AiohttpAsyncSession._session, the persistent engine session
    req,              \* one record per request() call: its locals and position
    temp,             \* the temporary SOCKS engine session of each request
    handle,           \* the aiohttp.ClientResponse of each request
    resp,             \* the _AiohttpResponse of each request
    reader,           \* the text() call in flight on each Response
    gen,              \* the aiter_content()/aiter_lines() generator of each Response
    ret               \* what the most recent json()/close() call returned or raised

vars ==
    <<facade, capability, default_proxies, session, req, temp, handle, resp, reader, gen,
      ret>>

-----------------------------------------------------------------------------
(* Bounds *)

MaxReq == 2
MaxLen == 3
MaxEmpty == 1
MaxItems == 2

Reqs == 1..MaxReq

-----------------------------------------------------------------------------
(* Optional values, text *)

None == <<>>
Some(x) == <<x>>
IsNone(o) == o = <<>>
Val(o) == o[1]

LF == 10
CR == 13
REPLACEMENT == 65533

Lower(s) == [i \in 1..Len(s) |-> IF s[i] \in 65..90 THEN s[i] + 32 ELSE s[i]]

StartsWith(s, p) == Len(s) >= Len(p) /\ SubSeq(s, 1, Len(p)) = p

HTTP == <<104, 116, 116, 112>>
HTTPS == <<104, 116, 116, 112, 115>>
SOCKS == <<115, 111, 99, 107, 115>>

\* proxy URLs: "http:p", "socks5:q", "SOCKS5:r"
P_HTTP == <<104, 116, 116, 112, 58, 112>>
P_SOCKS == <<115, 111, 99, 107, 115, 53, 58, 113>>
P_SOCKSUP == <<83, 79, 67, 75, 83, 53, 58, 114>>

\* request URLs: "http:u", "HTTPS:u", "ftp:u", "u"
U_HTTP == <<104, 116, 116, 112, 58, 117>>
U_HTTPSUP == <<72, 84, 84, 80, 83, 58, 117>>
U_FTP == <<102, 116, 112, 58, 117>>
U_BARE == <<117>>

\* dict.get(key): None when absent
Get(d, k) == IF k \in DOMAIN d THEN d[k] ELSE <<>>

\* dict.update(e)
Update(d, e) == [k \in DOMAIN d \cup DOMAIN e |-> IF k \in DOMAIN e THEN e[k] ELSE d[k]]

\* d[k] = v
Put(d, k, v) == [x \in DOMAIN d \cup {k} |-> IF x = k THEN v ELSE d[x]]

EmptyDict == [k \in {} |-> <<>>]

-----------------------------------------------------------------------------
(* Proxy Resolver *)

\* a proxies argument: None, a string, a dict (its items in insertion order)
\* or a value of another type
NoArg == [t |-> "none", v |-> <<>>, items |-> <<>>]
StrArg(s) == [t |-> "str", v |-> s, items |-> <<>>]
DictArg(items) == [t |-> "dict", v |-> <<>>, items |-> items]
OtherArg == [t |-> "other", v |-> <<>>, items |-> <<>>]

\* the loop of _normalize_proxies over the dict's items
RECURSIVE NormalizeItems(_, _)
NormalizeItems(items, out) ==
    IF items = <<>> THEN out
    ELSE LET key == items[1][1]
             proxy == items[1][2]
             k == Lower(key)
         IN  IF proxy = <<>> THEN NormalizeItems(Tail(items), out)
             ELSE IF k \in {HTTP, HTTPS}
                  THEN NormalizeItems(Tail(items), Put(out, k, proxy))
                  ELSE NormalizeItems(Tail(items), out)

\* _normalize_proxies without its `if not value` and its `out or None`
_normalize_proxies_unchecked(value) ==
    IF value.t = "dict" THEN Some(NormalizeItems(value.items, EmptyDict))
    ELSE IF value.t = "str" THEN Some([k \in {HTTP, HTTPS} |-> value.v])
    ELSE None

_normalize_proxies(value) ==
    IF value.t = "none" THEN None
    ELSE IF value.t = "dict"
         THEN IF value.items = <<>> THEN None
              ELSE LET out == NormalizeItems(value.items, EmptyDict)
                   IN  IF DOMAIN out = {} THEN None ELSE Some(out)
    ELSE IF value.t = "str"
         THEN IF value.v = <<>> THEN None
              ELSE Some([k \in {HTTP, HTTPS} |-> value.v])
    ELSE None

\* urlparse(url).scheme: the characters before the first ':' when they form a
\* scheme (a letter, then letters, digits, '+', '-', '.'), lower-cased; else ""
SchemeChars == (97..122) \cup (65..90) \cup (48..57) \cup {43, 45, 46}
UrlScheme(url) ==
    LET colons == {i \in 1..Len(url) : url[i] = 58}
    IN  IF colons = {} THEN <<>>
        ELSE LET i == CHOOSE c \in colons : \A d \in colons : c <= d
                 head == SubSeq(url, 1, i - 1)
             IN  IF i > 1
                    /\ head[1] \in (97..122) \cup (65..90)
                    /\ \A j \in 1..Len(head) : head[j] \in SchemeChars
                 THEN Lower(head)
                 ELSE <<>>

\* _pick_proxy without its fallback to the https and http entries
_pick_proxy_own_scheme(url, proxies) ==
    IF DOMAIN proxies = {} THEN None
    ELSE LET parsed == UrlScheme(url)
             scheme == Lower(IF parsed = <<>> THEN HTTPS ELSE parsed)
         IN  IF scheme \in DOMAIN proxies THEN Some(proxies[scheme]) ELSE None

\* `x or y or z`: the first truthy operand, else the last operand as it is
_pick_proxy(url, proxies) ==
    IF DOMAIN proxies = {} THEN None
    ELSE LET parsed == UrlScheme(url)
             scheme == Lower(IF parsed = <<>> THEN HTTPS ELSE parsed)
             a == Get(proxies, scheme)
             b == Get(proxies, HTTPS)
         IN  IF a # <<>> THEN Some(a)
             ELSE IF b # <<>> THEN Some(b)
             ELSE IF HTTP \in DOMAIN proxies THEN Some(proxies[HTTP])
             ELSE None

-----------------------------------------------------------------------------
(* Timeout and verify options *)

\* a timeout argument: None, a value float() accepts, or one it rejects
T_None == [t |-> "none", n |-> 0]
T_Num(n) == [t |-> "num", n |-> n]
T_Bad == [t |-> "bad", n |-> 0]

\* the seconds as an optional number
_to_timeout(value) == IF value.t = "num" THEN Some(value.n) ELSE None

\* a verify argument: None, a bool, an int, a float or a str
V_None == [t |-> "none", n |-> 0, s |-> <<>>]
V_Bool(b) == [t |-> "bool", n |-> IF b THEN 1 ELSE 0, s |-> <<>>]
V_Int(n) == [t |-> "int", n |-> n, s |-> <<>>]
V_Float(n) == [t |-> "float", n |-> n, s |-> <<>>]
V_Str(s) == [t |-> "str", n |-> 0, s |-> s]

\* "0", "false", "False", "no", "off"
S_0 == <<48>>
S_false == <<102, 97, 108, 115, 101>>
S_False == <<70, 97, 108, 115, 101>>
S_no == <<110, 111>>
S_off == <<111, 102, 102>>

\* Python's ==: bool, int and float compare by their number, str with str
\* by their characters, None with None
PyEq(a, b) ==
    LET numeric == {"bool", "int", "float"}
    IN  \/ a.t \in numeric /\ b.t \in numeric /\ a.n = b.n
        \/ a.t = "str" /\ b.t = "str" /\ a.s = b.s
        \/ a.t = "none" /\ b.t = "none"

\* the tuple `verify in (...)` searches
DisableTokens ==
    <<V_Bool(FALSE), V_Int(0), V_Str(S_0), V_Str(S_false), V_Str(S_False),
      V_Str(S_no), V_Str(S_off)>>

\* the values an engine takes as its ssl option: "False" (no verification),
\* "SSLContext" (a default context loaded with certifi's bundle), and
\* "Default" when the option is not passed (the engine then verifies)
\* a builder that tests `not verify` instead of searching the tuple
_ssl_for_verify_falsy(verify) ==
    IF \/ verify.t \in {"bool", "int", "float"} /\ verify.n = 0
       \/ verify = V_Str(<<>>)
       \/ verify.t = "none"
    THEN "False" ELSE "SSLContext"

_ssl_for_verify(verify) ==
    IF \E i \in 1..Len(DisableTokens) : PyEq(verify, DisableTokens[i])
    THEN "False" ELSE "SSLContext"

-----------------------------------------------------------------------------
(* Bytes and text *)

\* the byte values bodies are built from: 'a', LF, CR and 0xFF (never valid UTF-8)
Alphabet == {97, LF, CR, 255}

RECURSIVE SeqsUpTo(_, _)
SeqsUpTo(S, n) ==
    IF n = 0 THEN {<<>>}
    ELSE LET shorter == SeqsUpTo(S, n - 1)
         IN  shorter \cup {Append(s, x) : s \in {t \in shorter : Len(t) = n - 1}, x \in S}

Bodies == SeqsUpTo(Alphabet, MaxLen)

\* bytes.decode("utf-8", errors="replace") on Alphabet: an ASCII byte is its own
\* code point, 0xFF is replaced by U+FFFD
Decode(b) == [i \in 1..Len(b) |-> IF b[i] < 128 THEN b[i] ELSE REPLACEMENT]

\* str.rstrip("\r")
RECURSIVE RStripCR(_)
RStripCR(s) ==
    IF s # <<>> /\ s[Len(s)] = CR THEN RStripCR(SubSeq(s, 1, Len(s) - 1)) ELSE s

\* index of the first x in s, 0 when absent
IndexOf(s, x) ==
    LET hits == {i \in 1..Len(s) : s[i] = x}
    IN  IF hits = {} THEN 0 ELSE CHOOSE i \in hits : \A j \in hits : i <= j

\* the characters str.splitlines() breaks a line at
LineBoundaries == {10, 11, 12, 13, 28, 29, 30, 133, 8232, 8233}

\* str.splitlines(): lines without their terminators, CR LF being one terminator
RECURSIVE SplitLines(_)
SplitLines(s) ==
    IF s = <<>> THEN <<>>
    ELSE LET hits == {i \in 1..Len(s) : s[i] \in LineBoundaries}
         IN  IF hits = {} THEN <<s>>
             ELSE LET i == CHOOSE c \in hits : \A d \in hits : c <= d
                      crlf == s[i] = CR /\ i < Len(s) /\ s[i + 1] = LF
                      next == IF crlf THEN i + 2 ELSE i + 1
                  IN  <<SubSeq(s, 1, i - 1)>> \o SplitLines(SubSeq(s, next, Len(s)))

RECURSIVE Concat(_)
Concat(ss) == IF ss = <<>> THEN <<>> ELSE ss[1] \o Concat(Tail(ss))

Min(a, b) == IF a <= b THEN a ELSE b

-----------------------------------------------------------------------------
(* State of one request and of the objects it opens *)

\* pc: "idle" (not called), "dispatch" (suspended in the engine session's
\* request), "read" (suspended in resp.read()), "closing" (suspended in the
\* sleep(0) of wrapped.close()), "returned", "raised"
\* engine_exc: what the engine raised into request(); exc, msg, cause: the
\* exception request() raised to its caller, its str() and its __cause__
\* timeout, verify: the options of the call; kwargs_timeout, kwargs_ssl: the
\* entries request() adds to the kwargs it forwards, None when it adds none;
\* timeout_used, ssl_used: what the engine applies to the dispatched request
NoReq ==
    [pc |-> "idle", stream |-> FALSE, url |-> <<>>, proxy |-> <<>>, proxies |-> NoArg,
     proxy_map |-> EmptyDict, proxy_url |-> None, use_socks |-> FALSE,
     engine_exc |-> "", exc |-> "", msg |-> "", cause |-> "",
     timeout |-> T_None, verify |-> V_None, kwargs_timeout |-> None,
     kwargs_ssl |-> None, timeout_used |-> None, ssl_used |-> ""]

\* timeout, ssl: the options the temporary engine session was constructed with
NoTemp ==
    [state |-> "none", closes |-> 0, dispatches |-> 0, timeout |-> None, ssl |-> ""]

\* live: the engine still holds the connection; pos: bytes consumed from the stream
NoHandle ==
    [opened |-> FALSE, live |-> FALSE, body |-> <<>>, pos |-> 0, releases |-> 0,
     reads |-> 0, empties |-> 0]

NoResp == [exists |-> FALSE, _body |-> None, _closed |-> FALSE, _owned_session |-> FALSE]

\* mode: the path the generator took at its first step, "mat" (the body was
\* buffered) or "stream"; fresh: the handle was live and untouched at that step
NoGen ==
    [kind |-> "none", pc |-> "none", chunk_size |-> 0, buf |-> <<>>, pending |-> <<>>,
     out |-> <<>>, end |-> "", mode |-> "", fresh |-> FALSE]

NoRet == [op |-> "", r |-> 0, val |-> "", engine_raised |-> FALSE, data |-> <<>>]

OpenHandle(body) ==
    [opened |-> TRUE, live |-> TRUE, body |-> body, pos |-> 0, releases |-> 0,
     reads |-> 0, empties |-> 0]

Remaining(h) == SubSeq(h.body, h.pos + 1, Len(h.body))

-----------------------------------------------------------------------------
(* _AiohttpResponse.close: its effect on the Response, the handle and the     *)
(* owned session.  The exceptions of release() and of the session's close()   *)
(* are swallowed; the trailing asyncio.sleep(0) changes nothing.              *)

close_resp(rs) == [rs EXCEPT !._closed = TRUE]

\* close() without its `if self._closed: return`
close_handle_unguarded(rs, h) == [h EXCEPT !.live = FALSE, !.releases = @ + 1]

\* close() without its call of release()
close_handle_forgotten(rs, h) == h

close_handle(rs, h) ==
    IF rs._closed THEN h
    ELSE [h EXCEPT !.live = FALSE, !.releases = @ + 1]

\* close() that leaves the owned session alone
close_temp_forgotten(rs, t) == t

close_temp(rs, t) ==
    IF rs._closed THEN t
    ELSE IF rs._owned_session /\ t.state # "closed"
         THEN [t EXCEPT !.state = "closed", !.closes = @ + 1]
         ELSE t

\* what the caller of close() sees when the engine's release()/close() raises
close_result(engine_raises) == "returned"

-----------------------------------------------------------------------------
(* _AiohttpResponse: close, scoped exit, json, text *)

\* the caller holds the Response of request r
Returned(r) == req[r].pc = "returned" /\ resp[r].exists

EngineErrors == {"ClientError", "TimeoutError", "OtherError"}

\* close() run to its asyncio.sleep(0) on Response r, h being the handle's record
CloseAll(r, h) ==
    /\ resp' = [resp EXCEPT ![r] = close_resp(@)]
    /\ handle' = [handle EXCEPT ![r] = close_handle(resp[r], h)]
    /\ temp' = [temp EXCEPT ![r] = close_temp(resp[r], @)]

Response_close(r) ==
    /\ Returned(r)
    /\ \E engine_raises \in BOOLEAN :
          ret' = [op |-> "close", r |-> r, val |-> close_result(engine_raises),
                  engine_raised |-> engine_raises, data |-> <<>>]
    /\ CloseAll(r, handle[r])
    /\ UNCHANGED <<facade, capability, default_proxies, session, req, reader, gen>>

Response_aexit(r) ==
    /\ Returned(r)
    /\ \E engine_raises \in BOOLEAN :
          ret' = [op |-> "aexit", r |-> r, val |-> close_result(engine_raises),
                  engine_raised |-> engine_raises, data |-> <<>>]
    /\ CloseAll(r, handle[r])
    /\ UNCHANGED <<facade, capability, default_proxies, session, req, reader, gen>>

\* json() reading the body as the content property does (`self._body or b""`)
json_result_lenient(rs) ==
    IF IsNone(rs._body) \/ Val(rs._body) = <<>> THEN "EmptyMapping" ELSE "Loads"

json_result(rs) ==
    IF IsNone(rs._body) THEN "UsageError"
    ELSE IF Val(rs._body) = <<>> THEN "EmptyMapping"
    ELSE "Loads"

Response_json(r) ==
    /\ Returned(r)
    /\ ret' = [op |-> "json", r |-> r, val |-> json_result(resp[r]),
               engine_raised |-> FALSE,
               data |-> IF IsNone(resp[r]._body) \/ Val(resp[r]._body) = <<>>
                        THEN <<>> ELSE Decode(Val(resp[r]._body))]
    /\ UNCHANGED <<facade, capability, default_proxies, session, req, temp, handle, resp,
                   reader, gen>>

\* text(): returns at once when the body is buffered, else suspends in
\* self._response.read()
Response_text(r) ==
    /\ Returned(r)
    /\ reader[r] = "idle"
    /\ IF IsNone(resp[r]._body)
       THEN /\ reader' = [reader EXCEPT ![r] = "reading"]
            /\ ret' = NoRet
       ELSE /\ reader' = reader
            /\ ret' = [op |-> "text", r |-> r, val |-> "returned",
                       engine_raised |-> FALSE, data |-> Decode(Val(resp[r]._body))]
    /\ UNCHANGED <<facade, capability, default_proxies, session, req, temp, handle, resp, gen>>

\* a _read_body that returns what it read without keeping it
read_body_store_skipped(rs, body) == rs

\* `self._body = await self._response.read()`
read_body_store(rs, body) == [rs EXCEPT !._body = Some(body)]

\* the read of _read_body completes: the body is stored and close() runs before
\* the next suspension
read_body_done(r) ==
    /\ reader[r] = "reading"
    /\ handle[r].live
    /\ LET body == Remaining(handle[r])
           h == [handle[r] EXCEPT !.pos = Len(handle[r].body), !.reads = @ + 1]
       IN  /\ resp' = [resp EXCEPT ![r] = close_resp(read_body_store(@, body))]
           /\ handle' = [handle EXCEPT ![r] = close_handle(resp[r], h)]
           /\ temp' = [temp EXCEPT ![r] = close_temp(resp[r], @)]
           /\ ret' = [op |-> "text", r |-> r, val |-> "returned",
                      engine_raised |-> FALSE, data |-> Decode(body)]
    /\ reader' = [reader EXCEPT ![r] = "idle"]
    /\ UNCHANGED <<facade, capability, default_proxies, session, req, gen>>

\* the read of _read_body raises: the engine drops the connection, _body stays
\* None and close() is not reached
read_body_fail(r, kind) ==
    /\ reader[r] = "reading"
    /\ handle' = [handle EXCEPT ![r].live = FALSE]
    /\ reader' = [reader EXCEPT ![r] = "idle"]
    /\ ret' = [op |-> "text", r |-> r, val |-> kind, engine_raised |-> TRUE,
               data |-> <<>>]
    /\ UNCHANGED <<facade, capability, default_proxies, session, req, temp, resp, gen>>

-----------------------------------------------------------------------------
(* _AiohttpResponse.aiter_content and aiter_lines: one generator per Response *)
(* at a time.  pc is where the generator stands: "new" (not started),         *)
(* "await" (suspended in the engine's iter_chunked), "yield" (suspended at a  *)
(* yield inside the try), "yield_last" (at the yield of the flushed partial    *)
(* line), "yield_mat" (at a yield of the materialized path), "abandoned_*"    *)
(* (the consumer dropped it, its finalizer has not run), "done".              *)

LinesChunk == 8192
DefaultChunk == 65536
ChunkSizes == 1..MaxLen

\* the yielded line with one carriage-return taken off, not all of them
lines_emit_one(raw) ==
    LET text == Decode(raw)
    IN  IF text # <<>> /\ text[Len(text)] = CR
        THEN SubSeq(text, 1, Len(text) - 1) ELSE text

\* the element aiter_lines yields for the raw bytes of one line
lines_emit(raw) == RStripCR(Decode(raw))

\* the while loop of aiter_lines: yield the next complete line of buf, or go
\* back to the engine for the next chunk
lines_loop(g) ==
    LET i == IndexOf(g.buf, LF)
    IN  IF i > 0
        THEN [g EXCEPT !.pc = "yield",
                       !.out = Append(@, lines_emit(SubSeq(g.buf, 1, i - 1))),
                       !.buf = SubSeq(g.buf, i + 1, Len(g.buf))]
        ELSE [g EXCEPT !.pc = "await"]

\* the materialized path without its `if self._body:` test
materialized_items_unchecked(kind, body) ==
    IF kind = "content" THEN <<body>> ELSE SplitLines(Decode(body))

\* the materialized path of both generators: the items it will yield
materialized_items(kind, body) ==
    IF kind = "content"
    THEN IF body # <<>> THEN <<body>> ELSE <<>>
    ELSE SplitLines(Decode(body))

\* yield the next pending item, or return
mat_loop(g) ==
    IF g.pending = <<>>
    THEN [g EXCEPT !.pc = "done", !.end = "exhausted"]
    ELSE [g EXCEPT !.pc = "yield_mat", !.out = Append(@, g.pending[1]),
                   !.pending = Tail(g.pending)]

Response_aiter_content(r, chunk_size) ==
    /\ Returned(r)
    /\ gen[r].pc \in {"none", "done"}
    /\ gen' = [gen EXCEPT ![r] = [NoGen EXCEPT !.kind = "content", !.pc = "new",
                                               !.chunk_size = chunk_size]]
    /\ ret' = NoRet
    /\ UNCHANGED <<facade, capability, default_proxies, session, req, temp, handle, resp, reader>>

Response_aiter_lines(r) ==
    /\ Returned(r)
    /\ gen[r].pc \in {"none", "done"}
    /\ gen' = [gen EXCEPT ![r] = [NoGen EXCEPT !.kind = "lines", !.pc = "new",
                                               !.chunk_size = LinesChunk]]
    /\ ret' = NoRet
    /\ UNCHANGED <<facade, capability, default_proxies, session, req, temp, handle, resp, reader>>

\* the generators without their try/finally
gen_finally_missing(r, g, h) ==
    /\ gen' = [gen EXCEPT ![r] = g]
    /\ UNCHANGED <<temp, handle, resp>>

\* the generator, finishing inside its try, runs the finally clause: close()
gen_finally(r, g, h) ==
    /\ gen' = [gen EXCEPT ![r] = g]
    /\ CloseAll(r, h)

\* the consumer asks for the next element
gen_anext(r) ==
    LET g == gen[r] IN
    /\ g.pc \in {"new", "yield", "yield_last", "yield_mat"}
    /\ ret' = NoRet
    /\ UNCHANGED <<facade, capability, default_proxies, session, req, reader>>
    /\ CASE g.pc = "new" /\ ~IsNone(resp[r]._body) ->
              /\ gen' = [gen EXCEPT ![r] =
                    mat_loop([g EXCEPT !.mode = "mat", !.pending =
                                 materialized_items(g.kind, Val(resp[r]._body))])]
              /\ UNCHANGED <<temp, handle, resp>>
         [] g.pc = "new" /\ IsNone(resp[r]._body) ->
              /\ gen' = [gen EXCEPT ![r] =
                    [g EXCEPT !.pc = "await", !.mode = "stream",
                              !.fresh = handle[r].live /\ handle[r].pos = 0]]
              /\ UNCHANGED <<temp, handle, resp>>
         [] g.pc = "yield_mat" ->
              /\ gen' = [gen EXCEPT ![r] = mat_loop(g)]
              /\ UNCHANGED <<temp, handle, resp>>
         [] g.pc = "yield" ->
              /\ gen' = [gen EXCEPT ![r] =
                    IF g.kind = "lines" THEN lines_loop(g) ELSE [g EXCEPT !.pc = "await"]]
              /\ UNCHANGED <<temp, handle, resp>>
         [] g.pc = "yield_last" ->
              gen_finally(r, [g EXCEPT !.pc = "done", !.end = "exhausted"], handle[r])

\* the engine delivers the next k bytes of the stream
engine_chunk(r, k) ==
    LET g == gen[r]
        h == handle[r]
        chunk == SubSeq(h.body, h.pos + 1, h.pos + k)
    IN
    /\ g.pc = "await"
    /\ h.live
    /\ k \in 1..Min(g.chunk_size, Len(h.body) - h.pos)
    /\ handle' = [handle EXCEPT ![r].pos = @ + k]
    /\ gen' = [gen EXCEPT ![r] =
          IF g.kind = "lines"
          THEN lines_loop([g EXCEPT !.buf = @ \o chunk])
          ELSE [g EXCEPT !.pc = "yield", !.out = Append(@, chunk)]]
    /\ ret' = NoRet
    /\ UNCHANGED <<facade, capability, default_proxies, session, req, temp, resp, reader>>

\* the engine delivers an empty chunk: both loops skip it
engine_empty_chunk(r) ==
    /\ gen[r].pc = "await"
    /\ handle[r].live
    /\ handle[r].empties < MaxEmpty
    /\ handle' = [handle EXCEPT ![r].empties = @ + 1]
    /\ ret' = NoRet
    /\ UNCHANGED <<facade, capability, default_proxies, session, req, temp, resp, reader, gen>>

\* the engine's stream ends (or the handle was released under the generator)
engine_eof(r) ==
    LET g == gen[r] IN
    /\ g.pc = "await"
    /\ ~handle[r].live \/ handle[r].pos = Len(handle[r].body)
    /\ ret' = NoRet
    /\ UNCHANGED <<facade, capability, default_proxies, session, req, reader>>
    /\ IF g.kind = "lines" /\ g.buf # <<>>
       THEN /\ gen' = [gen EXCEPT ![r] =
                  [g EXCEPT !.pc = "yield_last", !.out = Append(@, lines_emit(g.buf))]]
            /\ UNCHANGED <<temp, handle, resp>>
       ELSE gen_finally(r, [g EXCEPT !.pc = "done", !.end = "exhausted"], handle[r])

\* the engine raises in the middle of the stream, or the consumer is cancelled
\* while the generator waits for the engine
engine_stream_error(r, kind) ==
    /\ gen[r].pc = "await"
    /\ ret' = NoRet
    /\ UNCHANGED <<facade, capability, default_proxies, session, req, reader>>
    /\ gen_finally(r, [gen[r] EXCEPT !.pc = "done", !.end = kind], handle[r])

\* the consumer stops iterating (break, exception in the loop body)
gen_abandon(r) ==
    /\ gen[r].pc \in {"new", "yield", "yield_last", "yield_mat"}
    /\ gen' = [gen EXCEPT ![r].pc =
          IF gen[r].pc \in {"yield", "yield_last"} THEN "abandoned_try" ELSE "abandoned"]
    /\ ret' = NoRet
    /\ UNCHANGED <<facade, capability, default_proxies, session, req, temp, handle, resp, reader>>

\* the abandoned generator is finalized: aclose() raises GeneratorExit at the
\* yield it is suspended at
gen_aclose(r) ==
    /\ gen[r].pc \in {"abandoned_try", "abandoned"}
    /\ ret' = NoRet
    /\ UNCHANGED <<facade, capability, default_proxies, session, req, reader>>
    /\ IF gen[r].pc = "abandoned_try"
       THEN gen_finally(r, [gen[r] EXCEPT !.pc = "done", !.end = "closed"], handle[r])
       ELSE /\ gen' = [gen EXCEPT ![r] = [@ EXCEPT !.pc = "done", !.end = "closed"]]
            /\ UNCHANGED <<temp, handle, resp>>

-----------------------------------------------------------------------------
(* _AiohttpAsyncSession *)

\* __init__: the session's default proxy map
session_default_proxies(proxy, proxies) ==
    LET proxy_map == _normalize_proxies(proxies)
    IN  IF proxy # <<>>
        THEN Some(Put(Put(IF IsNone(proxy_map) THEN EmptyDict ELSE Val(proxy_map),
                          HTTP, proxy), HTTPS, proxy))
        ELSE proxy_map

\* the per-call proxy written to the https key only
effective_proxy_map_https_only(defaults, proxy, proxies) ==
    LET base == IF IsNone(defaults) THEN EmptyDict ELSE Val(defaults)
        extra == _normalize_proxies(proxies)
        merged == IF IsNone(extra) THEN base ELSE Update(base, Val(extra))
    IN  IF proxy # <<>> THEN Put(merged, HTTPS, proxy) ELSE merged

\* request(): the effective proxy map of one call
effective_proxy_map(defaults, proxy, proxies) ==
    LET base == IF IsNone(defaults) THEN EmptyDict ELSE Val(defaults)
        extra == _normalize_proxies(proxies)
        merged == IF IsNone(extra) THEN base ELSE Update(base, Val(extra))
    IN  IF proxy # <<>>
        THEN Put(Put(merged, HTTP, proxy), HTTPS, proxy)
        ELSE merged

\* a request() that updates self._default_proxies itself instead of a copy
defaults_after_aliased(defaults, proxy, proxies) ==
    IF IsNone(defaults) THEN defaults
    ELSE Some(effective_proxy_map(defaults, proxy, proxies))

\* self._default_proxies after request(): line 214 copies the map, and the
\* per-call proxies and proxy are written to the copy
defaults_after(defaults, proxy, proxies) == defaults

\* the SOCKS test without .lower()
use_socks_proxy_cased(proxy_url) ==
    /\ ~IsNone(proxy_url)
    /\ StartsWith(Val(proxy_url), SOCKS)

use_socks_proxy(proxy_url) ==
    /\ ~IsNone(proxy_url)
    /\ Val(proxy_url) # <<>>
    /\ StartsWith(Lower(Val(proxy_url)), SOCKS)

\* str(e) of an exception of the engine
str_e(kind) ==
    CASE kind = "ClientError" -> "connection refused"
      [] kind = "OtherError" -> "bad argument"
      [] OTHER -> ""

\* an except clause that catches aiohttp.ClientError only
map_exception_client_only(kind) ==
    IF kind = "ClientError" THEN "RequestsError" ELSE kind

\* the except clause of request(): engine connection errors and timeouts
\* become RequestsError, anything else passes
map_exception(kind) ==
    IF kind \in {"ClientError", "TimeoutError"} THEN "RequestsError" ELSE kind

\* `raise RequestsError(str(e)) from e` for the kinds the clause catches
Raise(rq, kind) ==
    [rq EXCEPT !.pc = "raised", !.exc = map_exception(kind), !.msg = str_e(kind),
               !.cause = IF map_exception(kind) = kind THEN "" ELSE kind]

\* the engine session constructed by _AiohttpAsyncSession.__init__: its
\* default timeout and the ssl option of its connector; verify keeps the
\* constructor's argument
session_engine(timeout, verify) ==
    [closed |-> FALSE, dispatches |-> 0, timeout |-> _to_timeout(timeout),
     ssl |-> _ssl_for_verify(verify), verify |-> verify]

\* the kwargs entries of lines 223-226
kwargs_timeout(timeout) == _to_timeout(timeout)
kwargs_ssl(verify) == IF verify.t # "none" THEN Some(_ssl_for_verify(verify)) ELSE None

\* the temporary engine session of the SOCKS path: its timeout is the kwargs
\* entry, its connector is built from the proxy URL alone
temp_engine(kw_timeout) ==
    [state |-> "open", closes |-> 0, dispatches |-> 1, timeout |-> kw_timeout,
     ssl |-> "Default"]

\* the engine's rule for one request: an option passed with the request
\* overrides the option of the engine session that sends it
engine_option(passed, of_session) == IF IsNone(passed) THEN of_session ELSE passed

\* request() up to its first suspension: resolve the proxy, refuse SOCKS without
\* the connector, else open the temporary session (SOCKS) and dispatch
request(r, a) ==
    LET proxy_map == effective_proxy_map(default_proxies, a.proxy, a.proxies)
        proxy_url == _pick_proxy(a.url, proxy_map)
        socks == use_socks_proxy(proxy_url)
        kw_timeout == kwargs_timeout(a.timeout)
        kw_ssl == kwargs_ssl(a.verify)
        sender == IF socks THEN temp_engine(kw_timeout) ELSE session
        rq == [NoReq EXCEPT !.stream = a.stream, !.url = a.url, !.proxy = a.proxy,
                            !.proxies = a.proxies, !.proxy_map = proxy_map,
                            !.proxy_url = proxy_url, !.use_socks = socks,
                            !.timeout = a.timeout, !.verify = a.verify,
                            !.kwargs_timeout = kw_timeout, !.kwargs_ssl = kw_ssl]
        sent == [rq EXCEPT !.pc = "dispatch",
                           !.timeout_used = engine_option(kw_timeout, sender.timeout),
                           !.ssl_used = Val(engine_option(kw_ssl, Some(sender.ssl)))]
    IN
    /\ req[r].pc = "idle"
    /\ ret' = NoRet
    /\ default_proxies' = defaults_after(default_proxies, a.proxy, a.proxies)
    /\ UNCHANGED <<capability, handle, resp, reader, gen>>
    /\ IF socks /\ ~capability
       THEN /\ req' = [req EXCEPT ![r] = [rq EXCEPT !.pc = "raised",
                                                    !.exc = "RequestsError",
                                                    !.msg = "SOCKS proxy requested but aiohttp-socks is not installed"]]
            /\ UNCHANGED <<session, temp>>
       ELSE IF socks
       THEN /\ req' = [req EXCEPT ![r] = sent]
            /\ temp' = [temp EXCEPT ![r] = temp_engine(kw_timeout)]
            /\ UNCHANGED session
       ELSE /\ req' = [req EXCEPT ![r] = sent]
            /\ session' = [session EXCEPT !.dispatches = @ + 1]
            /\ UNCHANGED temp

\* request() called on the backend itself
Session_request(r, a) == request(r, a) /\ UNCHANGED facade

\* the engine answers with a response whose body will be `body`
dispatch_done(r, body) ==
    /\ req[r].pc = "dispatch"
    /\ IF req[r].use_socks THEN temp[r].state = "open" ELSE ~session.closed
    /\ handle' = [handle EXCEPT ![r] = OpenHandle(body)]
    /\ IF req[r].stream
       THEN /\ resp' = [resp EXCEPT ![r] =
                  [NoResp EXCEPT !.exists = TRUE, !._owned_session = req[r].use_socks]]
            /\ req' = [req EXCEPT ![r].pc = "returned"]
       ELSE /\ resp' = resp
            /\ req' = [req EXCEPT ![r].pc = "read"]
    /\ ret' = NoRet
    /\ UNCHANGED <<facade, capability, default_proxies, session, temp, reader, gen>>

\* the engine session's request raises: the SOCKS path closes its temporary
\* session in `except Exception`
dispatch_fail(r, kind) ==
    /\ req[r].pc = "dispatch"
    /\ req' = [req EXCEPT ![r] = Raise([@ EXCEPT !.engine_exc = kind], kind)]
    /\ temp' = [temp EXCEPT ![r] =
          IF req[r].use_socks THEN [@ EXCEPT !.state = "closed", !.closes = @ + 1] ELSE @]
    /\ ret' = NoRet
    /\ UNCHANGED <<facade, capability, default_proxies, session, handle, resp, reader, gen>>

\* stream false: resp.read() completes, the Response is built with the body
\* and closed; request() is then suspended in the sleep(0) of close()
request_read_done(r) ==
    LET body == Remaining(handle[r])
        wrapped == [NoResp EXCEPT !.exists = TRUE, !._body = Some(body),
                                  !._owned_session = req[r].use_socks]
        h == [handle[r] EXCEPT !.pos = Len(handle[r].body), !.reads = @ + 1]
    IN
    /\ req[r].pc = "read"
    /\ handle[r].live
    /\ resp' = [resp EXCEPT ![r] = close_resp(wrapped)]
    /\ handle' = [handle EXCEPT ![r] = close_handle(wrapped, h)]
    /\ temp' = [temp EXCEPT ![r] = close_temp(wrapped, @)]
    /\ req' = [req EXCEPT ![r].pc = "closing"]
    /\ ret' = NoRet
    /\ UNCHANGED <<facade, capability, default_proxies, session, reader, gen>>

\* stream false: resp.read() raises; the engine drops the connection, and
\* neither release() nor the owner's close() is called
request_read_fail(r, kind) ==
    /\ req[r].pc = "read"
    /\ handle' = [handle EXCEPT ![r].live = FALSE]
    /\ req' = [req EXCEPT ![r] = Raise([@ EXCEPT !.engine_exc = kind], kind)]
    /\ ret' = NoRet
    /\ UNCHANGED <<facade, capability, default_proxies, session, temp, resp, reader, gen>>

\* the sleep(0) of wrapped.close() resumes and request() returns the Response
request_return(r) ==
    /\ req[r].pc = "closing"
    /\ req' = [req EXCEPT ![r].pc = "returned"]
    /\ ret' = NoRet
    /\ UNCHANGED <<facade, capability, default_proxies, session, temp, handle, resp, reader, gen>>

\* the awaiting caller is cancelled at a suspension point of request():
\* CancelledError is no Exception, so no except clause of request() runs
request_cancel(r) ==
    /\ req[r].pc \in {"dispatch", "read", "closing"}
    /\ req' = [req EXCEPT ![r] = Raise(@, "CancelledError")]
    /\ handle' = [handle EXCEPT ![r].live = IF req[r].pc = "read" THEN FALSE ELSE @]
    /\ ret' = NoRet
    /\ UNCHANGED <<facade, capability, default_proxies, session, temp, resp, reader, gen>>

\* close() and the scoped exit of the Session close the persistent engine session
close ==
    /\ session' = [session EXCEPT !.closed = TRUE]
    /\ ret' = NoRet
    /\ UNCHANGED <<capability, default_proxies, req, temp, handle, resp, reader, gen>>

\* close() called on the backend itself
Session_close == close /\ UNCHANGED facade

-----------------------------------------------------------------------------
(* AsyncSession, the facade *)

CURL == "_CurlAsyncSession"
AIOHTTP == "_AiohttpAsyncSession"

\* AsyncSession.__init__: one evaluation of the flag binds _impl.  probes
\* counts the evaluations of the flag; op and to are the facade method called
\* last and the backend it went to
AsyncSession_init(has_curl_cffi) ==
    [_HAS_CURL_CFFI |-> has_curl_cffi,
     _impl |-> IF has_curl_cffi THEN CURL ELSE AIOHTTP,
     probes |-> 1, op |-> "", to |-> ""]

\* a forwarding that picks the backend from the flag at every call
forward_reprobed(f, op) ==
    [f EXCEPT !.op = op, !.to = IF f._HAS_CURL_CFFI THEN CURL ELSE AIOHTTP,
              !.probes = @ + 1]

\* `return await self._impl.<op>(...)`
forward(f, op) == [f EXCEPT !.op = op, !.to = f._impl]

\* the curl_cffi backend is not part of this module: its calls leave the
\* fallback backend's state alone
curl_call ==
    UNCHANGED <<capability, default_proxies, session, req, temp, handle, resp, reader,
                gen, ret>>

\* request(), get(), post() and delete() of the facade; the backend's get,
\* post and delete call its request()
AsyncSession_request(r, a, op) ==
    /\ op \in {"request", "get", "post", "delete"}
    /\ facade' = forward(facade, op)
    /\ IF facade'.to = AIOHTTP THEN request(r, a) ELSE curl_call

\* close() and __aexit__() of the facade; the backend's __aexit__ calls close()
AsyncSession_close(op) ==
    /\ op \in {"close", "__aexit__"}
    /\ facade' = forward(facade, op)
    /\ IF facade'.to = AIOHTTP THEN close ELSE curl_call

\* __aenter__() of the facade; the backend's __aenter__ returns the backend
AsyncSession_aenter ==
    /\ facade' = forward(facade, "__aenter__")
    /\ curl_call

-----------------------------------------------------------------------------
(* Inputs *)

\* calls and sessions that leave timeout and verify at their defaults
CallArgs(streams, urls, proxy_values, proxies_values) ==
    [stream : streams, url : urls, proxy : proxy_values, proxies : proxies_values,
     timeout : {T_None}, verify : {V_None}]

SessionArgs(proxy_values, proxies_values) ==
    [proxy : proxy_values, proxies : proxies_values,
     timeout : {T_None}, verify : {V_Bool(TRUE)}]

\* dict arguments of up to MaxItems items with distinct keys
ProxyKeys == {HTTP, <<72, 84, 84, 80, 83>>, <<102, 116, 112>>}
ProxyValues == {<<>>, P_HTTP, P_SOCKS}
DictItems ==
    {items \in SeqsUpTo(ProxyKeys \X ProxyValues, MaxItems) :
        \A i, j \in 1..Len(items) : i # j => items[i][1] # items[j][1]}

\* a facade constructed with the options session_args; when it binds the
\* curl_cffi backend the fallback backend's state is never used
InitFacade(flags, session_args) ==
    /\ \E has_curl_cffi \in flags : facade = AsyncSession_init(has_curl_cffi)
    /\ capability \in BOOLEAN
    /\ \E sa \in session_args :
          /\ default_proxies = session_default_proxies(sa.proxy, sa.proxies)
          /\ session = session_engine(sa.timeout, sa.verify)
    /\ req = [r \in Reqs |-> NoReq]
    /\ temp = [r \in Reqs |-> NoTemp]
    /\ handle = [r \in Reqs |-> NoHandle]
    /\ resp = [r \in Reqs |-> NoResp]
    /\ reader = [r \in Reqs |-> "idle"]
    /\ gen = [r \in Reqs |-> NoGen]
    /\ ret = NoRet

\* a fallback backend, constructed by a facade where curl_cffi is missing
InitWith(session_args) == InitFacade({FALSE}, session_args)

\* the steps of one request() call
NextRequest(r, calls, bodies) ==
    \/ req[r].pc = "idle" /\ \E a \in calls : Session_request(r, a)
    \/ \E b \in bodies : dispatch_done(r, b)
    \/ \E kind \in EngineErrors : dispatch_fail(r, kind)
    \/ request_read_done(r)
    \/ \E kind \in EngineErrors : request_read_fail(r, kind)
    \/ request_return(r)
    \/ request_cancel(r)

-----------------------------------------------------------------------------
(* Spec: concurrent request() calls on one Session, up to the return of each *)

NarrowSession == SessionArgs({<<>>}, {NoArg, StrArg(P_HTTP)})
NarrowCalls == CallArgs(BOOLEAN, {U_HTTP}, {<<>>, P_SOCKSUP}, {NoArg})
NarrowBodies == {<<>>, <<97, LF>>}

Init == InitWith(NarrowSession)

Next ==
    \/ \E r \in Reqs : NextRequest(r, NarrowCalls, NarrowBodies)
    \/ Session_close

Spec == Init /\ [][Next]_vars

-----------------------------------------------------------------------------
(* SpecResponse: one request and every operation on the Response it returns.  *)
(* Each Response owns its handle and its temporary session, so one Response   *)
(* is followed; the other request slots stay idle.                            *)

Followed == {r \in Reqs : \A q \in Reqs : r <= q}

NextResponse ==
    \/ \E r \in Followed :
          \/ NextRequest(r, NarrowCalls, NarrowBodies)
          \/ Response_close(r)
          \/ Response_aexit(r)
          \/ Response_json(r)
          \/ Response_text(r)
          \/ read_body_done(r)
          \/ \E kind \in EngineErrors : read_body_fail(r, kind)
          \/ \E n \in {1, DefaultChunk} : Response_aiter_content(r, n)
          \/ Response_aiter_lines(r)
          \/ gen_anext(r)
          \/ \E k \in 1..MaxLen : engine_chunk(r, k)
          \/ engine_empty_chunk(r)
          \/ engine_eof(r)
          \/ \E kind \in EngineErrors \cup {"CancelledError"} : engine_stream_error(r, kind)
          \/ gen_abandon(r)
          \/ gen_aclose(r)
    \/ Session_close

InitResponse == InitWith(SessionArgs({<<>>}, {NoArg}))

SpecResponse == InitResponse /\ [][NextResponse]_vars

\* the event loop's asynchronous-generator finalizer runs aclose() on a dropped
\* generator
FairResponse == SpecResponse /\ \A r \in Followed : WF_vars(gen_aclose(r))

-----------------------------------------------------------------------------
(* SpecIter: the two iterations of one Response over every body and every way *)
(* the engine cuts it into chunks                                             *)

PlainSession == SessionArgs({<<>>}, {NoArg})
PlainCalls == CallArgs(BOOLEAN, {U_HTTP}, {<<>>}, {NoArg})

InitIter == InitWith(PlainSession)

NextIter ==
    \E r \in Followed :
       \/ req[r].pc = "idle" /\ \E a \in PlainCalls : Session_request(r, a)
       \/ \E b \in Bodies : dispatch_done(r, b)
       \/ request_read_done(r)
       \/ request_return(r)
       \/ \E n \in ChunkSizes : Response_aiter_content(r, n)
       \/ Response_aiter_lines(r)
       \/ gen_anext(r)
       \/ \E k \in 1..MaxLen : engine_chunk(r, k)
       \/ engine_empty_chunk(r)
       \/ engine_eof(r)

SpecIter == InitIter /\ [][NextIter]_vars

-----------------------------------------------------------------------------
(* SpecResolve: the proxy resolution of request() over every combination of   *)
(* session and per-call proxy options                                         *)

ProxiesArgs ==
    {NoArg, OtherArg} \cup {StrArg(v) : v \in ProxyValues}
        \cup {DictArg(items) : items \in DictItems}

WideSession == SessionArgs({<<>>, P_HTTP, P_SOCKSUP}, ProxiesArgs)
WideCalls == CallArgs({TRUE}, {U_HTTP, U_HTTPSUP, U_FTP, U_BARE},
                      {<<>>, P_HTTP, P_SOCKSUP}, ProxiesArgs)

InitResolve == InitWith(WideSession)

NextResolve ==
    \E r \in Followed :
       \/ req[r].pc = "idle" /\ \E a \in WideCalls : Session_request(r, a)
       \/ \E kind \in EngineErrors : dispatch_fail(r, kind)

SpecResolve == InitResolve /\ [][NextResolve]_vars

-----------------------------------------------------------------------------
(* SpecPolicy: the timeout and the TLS verification of a dispatched request   *)
(* over every combination of session and per-call timeout and verify, on the  *)
(* persistent path and on the SOCKS path                                      *)

\* "FALSE", "1"
S_FALSE == <<70, 65, 76, 83, 69>>
S_1 == <<49>>

VerifyValues ==
    {V_None, V_Bool(TRUE), V_Bool(FALSE), V_Int(0), V_Int(1), V_Float(0)}
        \cup {V_Str(x) : x \in {S_0, S_false, S_False, S_no, S_off, S_FALSE, S_1, <<>>}}
TimeoutValues == {T_None, T_Bad, T_Num(5), T_Num(9)}

PolicySession ==
    [proxy : {<<>>}, proxies : {NoArg}, timeout : TimeoutValues, verify : VerifyValues]
PolicyCalls ==
    [stream : {TRUE}, url : {U_HTTPSUP}, proxy : {<<>>, P_SOCKS}, proxies : {NoArg},
     timeout : TimeoutValues, verify : VerifyValues]

InitPolicy == InitWith(PolicySession)

NextPolicy ==
    \E r \in Followed :
       \/ req[r].pc = "idle" /\ \E a \in PolicyCalls : Session_request(r, a)
       \/ dispatch_done(r, <<>>)
       \/ \E kind \in EngineErrors : dispatch_fail(r, kind)

SpecPolicy == InitPolicy /\ [][NextPolicy]_vars

-----------------------------------------------------------------------------
(* SpecFacade: every call made through the facade, with either backend bound  *)

FacadeRequestOps == {"request", "get", "post", "delete"}
FacadeCloseOps == {"close", "__aexit__"}

InitAsyncSession == InitFacade(BOOLEAN, PlainSession)

NextFacade ==
    \/ \E r \in Reqs :
          \/ \E op \in FacadeRequestOps, a \in PlainCalls : AsyncSession_request(r, a, op)
          \/ dispatch_done(r, <<>>)
          \/ request_read_done(r)
          \/ request_return(r)
    \/ \E op \in FacadeCloseOps : AsyncSession_close(op)
    \/ AsyncSession_aenter

SpecFacade == InitAsyncSession /\ [][NextFacade]_vars

-----------------------------------------------------------------------------
(* Claims *)

\* the handle of r is released and what the Response owns is closed
Released(r) ==
    /\ resp[r]._closed
    /\ ~handle[r].live
    /\ handle[r].releases = 1
    /\ resp[r]._owned_session => temp[r].state = "closed" /\ temp[r].closes = 1

\* C1: whatever close(), text(), the iterations and the scoped exit do to one
\* Response, in any order, release() is called on its handle at most once:
\* never while the Response is open, exactly once from the moment it is closed
\* (so a second close() releases nothing); and close() and the scoped exit
\* return normally even when the engine's release or close raises.
C1_ReleaseOnce ==
    \A r \in Reqs :
       /\ handle[r].releases <= 1
       /\ resp[r].exists => handle[r].releases = (IF resp[r]._closed THEN 1 ELSE 0)
       /\ ret.op \in {"close", "aexit"} /\ ret.r = r => ret.val = "returned"

\* a close() that returns although the engine raised, on a Response an
\* exhausted iteration had already closed
C1_Witness ==
    \E r \in Reqs :
       /\ ret.op = "close" /\ ret.r = r /\ ret.engine_raised
       /\ gen[r].mode = "stream" /\ gen[r].end = "exhausted"
       /\ handle[r].releases = 1

\* C2: when request() has ended by raising (an engine error or a cancellation),
\* the temporary SOCKS session it opened is closed and the handle it opened is
\* no longer held.
C2_NothingLeftOpen ==
    \A r \in Reqs :
       req[r].pc = "raised" => temp[r].state # "open" /\ ~handle[r].live

\* C3: the Response of a SOCKS-routed request owns the temporary session; the
\* session is open exactly while the Response is not closed, and has been
\* closed exactly once from the moment the Response is closed, whatever
\* happens to the Session.
C3_OwnedSession ==
    \A r \in Reqs :
       resp[r].exists =>
          /\ resp[r]._owned_session = req[r].use_socks
          /\ resp[r]._owned_session =>
                /\ temp[r].state = (IF resp[r]._closed THEN "closed" ELSE "open")
                /\ temp[r].closes = (IF resp[r]._closed THEN 1 ELSE 0)

\* the Session is closed while a streaming Response still holds its open
\* temporary session
C3_Witness ==
    \E r \in Reqs :
       /\ session.closed
       /\ req[r].pc = "returned" /\ resp[r]._owned_session
       /\ ~resp[r]._closed /\ temp[r].state = "open"

\* the scheme of a proxy URL starts with "socks"
SocksScheme(proxy_url) ==
    ~IsNone(proxy_url) /\ StartsWith(UrlScheme(Val(proxy_url)), SOCKS)

\* C4: a request whose resolved proxy has a socks scheme, made without the
\* SOCKS connector, raises RequestsError in its first step, and that step
\* leaves the engine sessions, the handles and the Session's defaults as they
\* were: nothing is dispatched and no temporary session is created.
C4_SocksRefused ==
    [][\A r \in Reqs :
          req[r].pc = "idle" /\ req'[r].pc # "idle"
             /\ SocksScheme(req'[r].proxy_url) /\ ~capability
          => /\ req'[r].pc = "raised"
             /\ req'[r].exc = "RequestsError"
             /\ req'[r].cause = ""
             /\ session' = session
             /\ temp' = temp
             /\ handle' = handle
             /\ default_proxies' = default_proxies]_vars

\* a refused SOCKS request (the proxy given in upper case) beside a request
\* that was dispatched
C4_Witness ==
    \E r, q \in Reqs :
       /\ ~capability
       /\ req[r].pc = "raised" /\ req[r].exc = "RequestsError"
       /\ req[r].proxy = P_SOCKSUP
       /\ temp[r].state = "none"
       /\ req[q].pc = "dispatch" /\ session.dispatches = 1

\* C5: at the step in which request() returns, a stream=False Response holds
\* the whole body, is closed, its handle released and its temporary session
\* closed; a stream=True Response holds no body, is open, its handle live and
\* never released and its temporary session open.
C5_ReturnedState ==
    [][\A r \in Reqs :
          req[r].pc # "returned" /\ req'[r].pc = "returned"
          => IF req'[r].stream
             THEN /\ IsNone(resp'[r]._body)
                  /\ ~resp'[r]._closed
                  /\ handle'[r].live /\ handle'[r].releases = 0
                  /\ req'[r].use_socks => temp'[r].state = "open"
             ELSE /\ resp'[r]._body = Some(handle'[r].body)
                  /\ resp'[r]._closed
                  /\ ~handle'[r].live /\ handle'[r].releases = 1
                  /\ req'[r].use_socks => temp'[r].state = "closed"]_vars

\* a buffered Response and a streaming one, both through SOCKS, both returned
C5_Witness ==
    \E r, q \in Reqs :
       /\ req[r].pc = "returned" /\ ~req[r].stream /\ req[r].use_socks
       /\ resp[r]._body = Some(<<97, LF>>)
       /\ req[q].pc = "returned" /\ req[q].stream /\ req[q].use_socks

\* C6: json() raises the usage error exactly when _body is None, it returns
\* the empty mapping for a buffered empty body, and in every case it leaves
\* the Response, the handle (no read, no release), the temporary session and
\* the calls in flight as they were.
C6_Json ==
    [][ret'.op = "json"
       => /\ (ret'.val = "UsageError") = IsNone(resp[ret'.r]._body)
          /\ resp[ret'.r]._body = Some(<<>>) => ret'.val = "EmptyMapping"
          /\ UNCHANGED <<resp, handle, temp, reader, gen, session, req>>]_vars

\* json() has raised the usage error on an unread Response whose handle is
\* still live
C6_Witness ==
    \E r \in Reqs :
       /\ ret.op = "json" /\ ret.r = r /\ ret.val = "UsageError"
       /\ IsNone(resp[r]._body) /\ handle[r].live /\ handle[r].reads = 0

\* the body cut at every line-feed: the segments between them, the last one
\* being what follows the last line-feed
RECURSIVE SplitOnLF(_)
SplitOnLF(b) ==
    LET i == IndexOf(b, LF)
    IN  IF i = 0 THEN <<b>>
        ELSE <<SubSeq(b, 1, i - 1)>> \o SplitOnLF(SubSeq(b, i + 1, Len(b)))

\* s without its last character when that is a carriage-return
StripOneCR(s) ==
    IF s # <<>> /\ s[Len(s)] = CR THEN SubSeq(s, 1, Len(s) - 1) ELSE s

\* s without the carriage-returns it ends with
StripAllCR(s) ==
    LET keep == {n \in 0..Len(s) : \A j \in (n + 1)..Len(s) : s[j] = CR}
    IN  SubSeq(s, 1, CHOOSE n \in keep : \A m \in keep : n <= m)

\* the lines of a body: its segments, the last one only when it is non-empty,
\* each decoded and stripped
RefLines(body, Strip(_)) ==
    LET segs == SplitOnLF(body)
        kept == IF segs[Len(segs)] = <<>> THEN SubSeq(segs, 1, Len(segs) - 1) ELSE segs
    IN  [i \in 1..Len(kept) |-> Strip(Decode(kept[i]))]

\* an iteration of kind k that began on a live, untouched handle and ran until
\* the engine's stream ended
StreamedThrough(r, k) ==
    /\ gen[r].kind = k
    /\ gen[r].mode = "stream" /\ gen[r].fresh
    /\ gen[r].pc = "done" /\ gen[r].end = "exhausted"

\* C7 as stated: aiter_lines() on an unread Response, run to the end of the
\* stream, has yielded the segments of the body between line-feeds, each
\* without its (one) trailing carriage-return, and the trailing partial line
\* when it is non-empty, however the engine cut the body into chunks.
C7_LinesOneCR ==
    \A r \in Reqs :
       StreamedThrough(r, "lines") => gen[r].out = RefLines(handle[r].body, StripOneCR)

\* C7 amended: as above, each line without all the carriage-returns it ends
\* with.
C7_LinesAllCR ==
    \A r \in Reqs :
       StreamedThrough(r, "lines") => gen[r].out = RefLines(handle[r].body, StripAllCR)

\* the body CR CR LF, delivered with an empty chunk in between, has yielded
\* one empty line
C7_Witness ==
    \E r \in Reqs :
       /\ StreamedThrough(r, "lines")
       /\ handle[r].body = <<CR, CR, LF>>
       /\ handle[r].empties > 0
       /\ gen[r].out = << <<>> >>

\* C8: aiter_content() yields non-empty chunks only, no more of them than the
\* body has bytes; run to the end of the stream on an unread Response they
\* concatenate to the whole body and the Response is closed, its handle
\* released once; on a materialized Response they are the buffer alone when it
\* is non-empty and nothing when it is empty.
C8_Content ==
    \A r \in Reqs :
       gen[r].kind = "content" =>
          /\ \A i \in 1..Len(gen[r].out) : gen[r].out[i] # <<>>
          /\ Len(gen[r].out) <= Len(handle[r].body)
          /\ StreamedThrough(r, "content") =>
                /\ Concat(gen[r].out) = handle[r].body
                /\ handle[r].pos = Len(handle[r].body)
                /\ Released(r)
          /\ gen[r].mode = "mat" /\ gen[r].pc = "done" /\ gen[r].end = "exhausted" =>
                gen[r].out = IF Val(resp[r]._body) = <<>> THEN <<>>
                             ELSE <<Val(resp[r]._body)>>

\* a stream delivered in MaxLen chunks was consumed whole and the handle
\* released
C8_Witness ==
    \E r \in Reqs :
       /\ StreamedThrough(r, "content")
       /\ Len(gen[r].out) = MaxLen
       /\ Concat(gen[r].out) = handle[r].body
       /\ handle[r].releases = 1

\* an iteration over the live stream of an unread Response has ended: by
\* exhaustion, an engine error or a cancellation (the generator is done), or by
\* the consumer dropping the generator at a yield
IterationEnded(r) ==
    /\ gen[r].mode = "stream"
    /\ gen[r].pc \in {"done", "abandoned_try"}

\* C9: a generator that has finished an iteration over the live stream leaves
\* the Response closed, its handle released and its temporary session closed;
\* an iteration that was dropped leads to that state; and once the Response is
\* closed it stays closed and no further byte is taken from the stream.
C9_IterationReleases ==
    /\ \A r \in Reqs : [](gen[r].mode = "stream" /\ gen[r].pc = "done" => Released(r))
    /\ \A r \in Reqs : IterationEnded(r) ~> Released(r)
    /\ [][\A r \in Reqs :
             resp[r]._closed => resp'[r]._closed /\ handle'[r].pos = handle[r].pos]_vars

\* a dropped iteration over a SOCKS-routed stream was finalized and closed the
\* temporary session, part of the stream unread
C9_Witness ==
    \E r \in Reqs :
       /\ gen[r].mode = "stream" /\ gen[r].end = "closed"
       /\ resp[r]._owned_session /\ temp[r].state = "closed"
       /\ handle[r].pos < Len(handle[r].body)
       /\ Released(r)

\* the effective map the claim describes: for each of http and https, the
\* per-call proxy when one is given, else the entry of the per-call proxies,
\* else the entry of the session's defaults
ExpectedProxyMap(defaults, proxy, proxies) ==
    LET base == IF IsNone(defaults) THEN EmptyDict ELSE Val(defaults)
        extra == IF IsNone(_normalize_proxies(proxies)) THEN EmptyDict
                 ELSE Val(_normalize_proxies(proxies))
        keys == IF proxy # <<>> THEN {HTTP, HTTPS} ELSE DOMAIN base \cup DOMAIN extra
    IN  [k \in keys |-> IF proxy # <<>> THEN proxy
                        ELSE IF k \in DOMAIN extra THEN extra[k] ELSE base[k]]

\* C10: the effective proxy map of every request is the session's default
\* map, overridden key by key by the per-call proxies, overridden for both
\* keys by a non-empty per-call proxy; with a per-call proxy P2 it is
\* http=P2, https=P2.
C10_EffectiveProxyMap ==
    \A r \in Reqs :
       req[r].pc # "idle" =>
          /\ req[r].proxy_map =
                ExpectedProxyMap(default_proxies, req[r].proxy, req[r].proxies)
          /\ req[r].proxy # <<>> =>
                req[r].proxy_map = [k \in {HTTP, HTTPS} |-> req[r].proxy]

\* proxies={"HTTPS": P1} and proxy=P2 on a session whose defaults are another
\* proxy: the effective map is P2 for both keys
C10_Witness ==
    \E r \in Reqs :
       /\ req[r].pc # "idle"
       /\ default_proxies = Some([k \in {HTTP, HTTPS} |-> P_SOCKS])
       /\ req[r].proxies = DictArg(<< <<(<<72, 84, 84, 80, 83>>), P_HTTP>> >>)
       /\ req[r].proxy = P_SOCKSUP
       /\ req[r].proxy_map = [k \in {HTTP, HTTPS} |-> P_SOCKSUP]

\* the scheme the claim looks up: the URL's scheme in lower case, https when
\* the URL has none
PickScheme(url) == IF UrlScheme(url) = <<>> THEN HTTPS ELSE Lower(UrlScheme(url))

\* C11: the proxy picked for a request is the effective map's entry for the
\* URL's lower-cased scheme (https when the URL has no scheme), else its https
\* entry, else its http entry, else None; None is picked only when the map
\* has neither an http nor an https entry.
C11_PickProxy ==
    \A r \in Reqs :
       req[r].pc # "idle" =>
          LET m == req[r].proxy_map
              s == PickScheme(req[r].url)
          IN  /\ req[r].proxy_url =
                    IF s \in DOMAIN m THEN Some(m[s])
                    ELSE IF HTTPS \in DOMAIN m THEN Some(m[HTTPS])
                    ELSE IF HTTP \in DOMAIN m THEN Some(m[HTTP])
                    ELSE None
              /\ IsNone(req[r].proxy_url) <=> DOMAIN m \cap {HTTP, HTTPS} = {}

\* a map holding only https=P1 and a request to an http: URL: P1 is picked
C11_Witness ==
    \E r \in Reqs :
       /\ req[r].pc # "idle"
       /\ req[r].url = U_HTTP
       /\ req[r].proxy_map = [k \in {HTTPS} |-> P_HTTP]
       /\ req[r].proxy_url = Some(P_HTTP)

\* C12: an aiohttp.ClientError or asyncio.TimeoutError the engine raises into
\* request(), at the dispatch or at the read of the body, reaches the caller
\* as one RequestsError whose message is the engine exception's and whose
\* cause is that exception (so it is wrapped once, never a wrapped wrapper);
\* an engine exception of any other type reaches the caller as it is.
C12_ErrorMapping ==
    \A r \in Reqs :
       req[r].engine_exc # "" =>
          /\ req[r].pc = "raised"
          /\ req[r].msg = str_e(req[r].engine_exc)
          /\ IF req[r].engine_exc \in {"ClientError", "TimeoutError"}
             THEN /\ req[r].exc = "RequestsError"
                  /\ req[r].cause = req[r].engine_exc
             ELSE /\ req[r].exc = req[r].engine_exc
                  /\ req[r].cause = ""

\* one request whose body read timed out, wrapped, and one whose dispatch
\* raised another exception, passed on
C12_Witness ==
    \E r, q \in Reqs :
       /\ req[r].pc = "raised" /\ handle[r].opened
       /\ req[r].engine_exc = "TimeoutError" /\ req[r].exc = "RequestsError"
       /\ req[q].pc = "raised" /\ ~handle[q].opened
       /\ req[q].engine_exc = "OtherError" /\ req[q].exc = "OtherError"

\* the verify values the claim lists: False and 0 (and what equals them as a
\* number), "0", "false", "False", "no", "off"
DisablesVerification(v) ==
    \/ v.t \in {"bool", "int", "float"} /\ v.n = 0
    \/ v.t = "str" /\ v.s \in {S_0, S_false, S_False, S_no, S_off}

\* the builder's results: for the session's connector, and for each call
\* that passes a verify
BuiltFor(v, ssl) ==
    /\ ssl \in {"False", "SSLContext"}
    /\ ssl = "False" <=> DisablesVerification(v)

\* C13: _ssl_for_verify returns False (verification disabled) for every
\* verify among False, 0, "0", "false", "False", "no", "off" and a verifying
\* context for every other value, None included; it never returns None.
C13_SslForVerify ==
    /\ BuiltFor(session.verify, session.ssl)
    /\ \A r \in Reqs :
          req[r].pc # "idle" /\ req[r].verify # V_None =>
             /\ ~IsNone(req[r].kwargs_ssl)
             /\ BuiltFor(req[r].verify, Val(req[r].kwargs_ssl))

\* a session built with verify="off" and a call with verify="FALSE": the
\* first disables verification, the second is no token and gets a context
C13_Witness ==
    \E r \in Reqs :
       /\ session.verify = V_Str(S_off) /\ session.ssl = "False"
       /\ req[r].pc # "idle"
       /\ req[r].verify = V_Str(S_FALSE)
       /\ req[r].kwargs_ssl = Some("SSLContext")

\* C14: the facade's _impl is the backend the process-wide flag selects, it
\* is bound by the one evaluation of the flag in the constructor and no call
\* of request, get, post, delete, close, __aenter__ or __aexit__ rebinds it
\* or evaluates the flag again; each of these calls goes to _impl.
C14_BoundBackend ==
    /\ [](/\ facade._impl = (IF facade._HAS_CURL_CFFI THEN CURL ELSE AIOHTTP)
          /\ facade.probes = 1
          /\ facade.op # "" => facade.to = facade._impl)
    /\ [][facade'._impl = facade._impl]_vars

\* a facade bound to the fallback backend, after two requests and a scoped
\* exit that closed the backend's engine session
C14_Witness ==
    /\ facade._impl = AIOHTTP
    /\ facade.op = "__aexit__" /\ facade.to = AIOHTTP
    /\ session.closed
    /\ \A r \in Reqs : req[r].pc = "returned"

\* the request went out through an engine session
Dispatched(r) == req[r].ssl_used # ""

\* C15: every dispatched request, through the persistent session or through
\* a temporary SOCKS session, is sent with the verification built from the
\* call's verify when the call gives one, else from the session's verify: a
\* session with verification disabled never sends a request with
\* verification on unless the call says so.
C15_VerifyInEffect ==
    \A r \in Reqs :
       Dispatched(r) =>
          LET verify == IF req[r].verify # V_None THEN req[r].verify ELSE session.verify
          IN  (req[r].ssl_used = "False") <=> DisablesVerification(verify)

\* C16: every dispatched request, through the persistent session or through
\* a temporary SOCKS session, runs under the call's timeout when the call
\* gives one, else under the session's, and under none when neither is
\* given; the temporary SOCKS session is constructed with that timeout.
C16_TimeoutInEffect ==
    \A r \in Reqs :
       Dispatched(r) =>
          LET resolved == IF ~IsNone(_to_timeout(req[r].timeout))
                          THEN _to_timeout(req[r].timeout)
                          ELSE session.timeout
          IN  /\ req[r].timeout_used = resolved
              /\ req[r].use_socks => temp[r].timeout = resolved

\* an iteration of kind k over a buffered body, run to its end
MaterializedThrough(r, k) ==
    /\ gen[r].kind = k
    /\ gen[r].mode = "mat"
    /\ gen[r].pc = "done" /\ gen[r].end = "exhausted"

\* C17: aiter_lines() on a materialized Response yields what it yields on an
\* unread Response streaming the same bytes: the body's segments between
\* line-feeds (no other character ends a line), each without its trailing
\* carriage-returns, the last one only when it is non-empty.
C17_SameLines ==
    \A r \in Reqs :
       MaterializedThrough(r, "lines") =>
          gen[r].out = RefLines(Val(resp[r]._body), StripAllCR)

\* a proxy map as the claim wants it: http and https keys only, no empty value
CleanMap(m) ==
    /\ DOMAIN m \subseteq {HTTP, HTTPS}
    /\ \A k \in DOMAIN m : m[k] # <<>>

\* None, or a clean map with at least one entry
CleanOrNone(o) == IsNone(o) \/ (CleanMap(Val(o)) /\ DOMAIN Val(o) # {})

\* C18: the session's default proxy map and the effective map of every
\* request hold no key but http and https and no empty value, whatever the
\* proxy and proxies options of the session and of the call are; what
\* _normalize_proxies returns, for the session and for each call, is None or
\* a map with an entry, never an empty map.
C18_ProxyMaps ==
    /\ CleanOrNone(default_proxies)
    /\ \A r \in Reqs :
          req[r].pc # "idle" =>
             /\ CleanMap(req[r].proxy_map)
             /\ CleanOrNone(_normalize_proxies(req[r].proxies))

\* a call whose proxies dict holds an ftp entry and an empty http entry, on a
\* session whose default map has the https entry alone: nothing of the dict
\* reaches the effective map
C18_Witness ==
    \E r \in Reqs :
       /\ req[r].pc # "idle"
       /\ req[r].proxy = <<>>
       /\ req[r].proxies = DictArg(<< <<(<<102, 116, 112>>), P_HTTP>>, <<HTTP, <<>> >> >>)
       /\ default_proxies = Some([k \in {HTTPS} |-> P_SOCKS])
       /\ req[r].proxy_map = [k \in {HTTPS} |-> P_SOCKS]

\* C19: no step of any request(), alone or interleaved with others, with or
\* without per-call proxy, proxies, timeout or verify, changes the session's
\* default proxy map, default timeout or connector policy; the proxy
\* resolved for a request is the one its own options and the session's
\* defaults give, whatever the other requests in flight were called with.
C19_SessionUnchanged ==
    /\ [][/\ default_proxies' = default_proxies
          /\ session'.timeout = session.timeout
          /\ session'.ssl = session.ssl]_vars
    /\ [](\A r \in Reqs :
             req[r].pc # "idle" =>
                req[r].proxy_url =
                   _pick_proxy(req[r].url,
                               ExpectedProxyMap(default_proxies, req[r].proxy,
                                                req[r].proxies)))

\* two requests in flight on a session whose default is the http proxy: one
\* overrides it with a SOCKS proxy, the other resolves to the default
C19_Witness ==
    \E r, q \in Reqs :
       /\ default_proxies = Some([k \in {HTTP, HTTPS} |-> P_HTTP])
       /\ req[r].pc = "dispatch" /\ req[r].proxy = P_SOCKSUP
       /\ req[r].proxy_url = Some(P_SOCKSUP)
       /\ req[q].pc = "dispatch" /\ req[q].proxy = <<>>
       /\ req[q].proxy_url = Some(P_HTTP)

\* C20: a Response whose body is buffered has its handle released, once,
\* after exactly one read, in every state a caller can see.  A text() that
\* completes on an unread Response has, in that one step, read the stream to
\* its end, buffered what it read and released the handle; a text() on a
\* buffered Response reads nothing and changes nothing; a text() whose read
\* fails leaves the Response unread.
C20_MaterializedReleased ==
    /\ [](\A r \in Reqs :
             resp[r].exists /\ ~IsNone(resp[r]._body) =>
                /\ resp[r]._closed
                /\ ~handle[r].live
                /\ handle[r].releases = 1
                /\ handle[r].reads = 1)
    /\ [][ret'.op = "text" =>
             LET r == ret'.r
             IN  IF ret'.engine_raised
                 THEN IsNone(resp[r]._body) /\ resp' = resp
                 ELSE IF IsNone(resp[r]._body)
                 THEN /\ resp'[r]._body = Some(Remaining(handle[r]))
                      /\ handle'[r].pos = Len(handle[r].body)
                      /\ handle'[r].reads = handle[r].reads + 1
                      /\ handle'[r].releases = handle[r].releases + 1
                      /\ ret'.data = Decode(Remaining(handle[r]))
                 ELSE /\ resp' = resp /\ handle' = handle
                      /\ ret'.data = Decode(Val(resp[r]._body))]_vars

\* text() has returned the body of a Response that request() returned
\* unread: one read, one release, the body buffered
C20_Witness ==
    \E r \in Reqs :
       /\ req[r].stream
       /\ ret.op = "text" /\ ret.r = r /\ ret.val = "returned"
       /\ resp[r]._body = Some(<<97, LF>>)
       /\ handle[r].reads = 1 /\ handle[r].releases = 1 /\ ~handle[r].live

====
